---- MODULE Spec2Model ----
(***************************************************************************)
(* The fluent style builder of gpui2 (crates/gpui2/src/styled.rs, trait    *)
(* Styled) and the cascade that resolves a stack of refinement records.    *)
(*                                                                         *)
(* A refinement record is a record of Option fields.  Option<T> is a       *)
(* sequence of length 0 (None) or 1 (Some(v)).  Floating point literals of *)
(* the source are scaled to integers: pixels are whole pixels, rems are    *)
(* thousandths (0.875 rem = 875), container fractions are percent          *)
(* (relative(1.) = 100) and hsla components are hundredths (0.05 = 5).     *)
(***************************************************************************)
EXTENDS Integers, Sequences, FiniteSets, TLC

\* Number of chained builder calls whose history is followed.
MaxCalls == 2
\* Number of refinement records in one cascade.
MaxLayers == 2
\* Length of a chain of builder calls that is followed whole.
MaxChain == 4

---------------------------------------------------------------------------
\* Option<T>
None == << >>

Some(v) == << v >>

\* Option::get_or_insert_with: the held value, materialized from `default`
\* when the option is None (styled.rs:546-549 and the other underline setters).
get_or_insert_with(opt, default) == IF opt = None THEN default ELSE opt[1]

---------------------------------------------------------------------------
\* Unit model (constructors imported at styled.rs:1-5).
px(p) == [px |-> p]

rems(r) == [rems |-> r]

gpui_relative(f) == [definite |-> "Fraction", v |-> f]

hsla(h, s, l, a) == [h |-> h, s |-> s, l |-> l, a |-> a]

point(x, y) == [x |-> x, y |-> y]

BoxShadow(color, offset, blur_radius, spread_radius) ==
  [color |-> color, offset |-> offset,
   blur_radius |-> blur_radius, spread_radius |-> spread_radius]

\* Length::Auto
LengthAuto == [length |-> "Auto"]

\* impl From<DefiniteLength> for Length
DefiniteIntoLength(d) == [length |-> "Definite", d |-> d]

\* impl From<Rems> for AbsoluteLength
RemsIntoAbsoluteLength(r) == [absolute |-> "Rems", v |-> r]

\* impl From<Pixels> for AbsoluteLength
PixelsIntoAbsoluteLength(p) == [absolute |-> "Pixels", v |-> p]

\* impl From<AbsoluteLength> for DefiniteLength
AbsoluteIntoDefiniteLength(l) == [definite |-> "Absolute", v |-> l]

\* impl From<Hsla> for Fill
HslaIntoFill(c) == [fill |-> "Color", color |-> c]

\* UnderlineStyle::default()
UnderlineStyleDefault == [color |-> None, wavy |-> FALSE, thickness |-> px(0)]

\* StyleRefinement::default(): no field is set.
StyleRefinementDefault ==
  [z_index |-> None,
   size |-> [width |-> None, height |-> None],
   position |-> None,
   display |-> None,
   visibility |-> None,
   overflow |-> [x |-> None, y |-> None],
   mouse_cursor |-> None,
   flex_direction |-> None,
   flex_grow |-> None,
   flex_shrink |-> None,
   flex_basis |-> None,
   align_items |-> None,
   justify_content |-> None,
   background |-> None,
   border_color |-> None,
   box_shadow |-> None,
   text |-> [white_space |-> None,
             color |-> None,
             background_color |-> None,
             font_size |-> None,
             underline |-> None,
             font_family |-> None,
             line_height |-> None]]

---------------------------------------------------------------------------
\* Arguments the parametrized builder methods are called with.
ZIndexArgs == << 0, 7 >>

CursorArgs == << "Arrow", "ResizeUpDown" >>

HslaArgs == << hsla(0, 0, 0, 100), hsla(60, 100, 50, 50) >>

ShadowArgs ==
  << << BoxShadow(hsla(0, 0, 0, 30), point(px(1), px(1)), px(3), px(0)) >>,
     << BoxShadow(hsla(0, 0, 0, 40), point(px(0), px(2)), px(1), px(1)),
        BoxShadow(hsla(0, 0, 0, 60), point(px(2), px(0)), px(5), px(-1)) >> >>

SizeArgs ==
  << PixelsIntoAbsoluteLength(px(16)), RemsIntoAbsoluteLength(rems(2000)) >>

FontArgs == << "Zed Mono", "Zed Sans" >>

LineHeightArgs ==
  << AbsoluteIntoDefiniteLength(PixelsIntoAbsoluteLength(px(20))),
     gpui_relative(150) >>

---------------------------------------------------------------------------
\* The builder methods of trait Styled, as functions of the record that
\* self.style() returns.  An accessor such as position_mut() or
\* box_shadow_mut() hands out the slot of the field (its code is outside
\* styled.rs); after the assignment through it the field is set, to the
\* assigned value (spec.md 3: every field is optional, and a cleared list
\* is a set, empty list).

\* styled.rs:15-18  fn z_index
z_index(s, a) ==
  [s EXCEPT !.z_index = Some(a)]

\* styled.rs:20-26  fn full
full(s) ==
  [s EXCEPT !.size.width = Some(DefiniteIntoLength(gpui_relative(100))),
              !.size.height = Some(DefiniteIntoLength(gpui_relative(100)))]

\* styled.rs:28-33  fn relative
relative(s) ==
  [s EXCEPT !.position = Some("Relative")]

\* styled.rs:35-40  fn absolute
absolute(s) ==
  [s EXCEPT !.position = Some("Absolute")]

\* styled.rs:42-47  fn block
block(s) ==
  [s EXCEPT !.display = Some("Block")]

\* styled.rs:49-54  fn flex
flex(s) ==
  [s EXCEPT !.display = Some("Flex")]

\* styled.rs:56-61  fn visible
visible(s) ==
  [s EXCEPT !.visibility = Some("Visible")]

\* styled.rs:63-68  fn invisible
invisible(s) ==
  [s EXCEPT !.visibility = Some("Hidden")]

\* styled.rs:70-75  fn overflow_hidden
overflow_hidden(s) ==
  [s EXCEPT !.overflow.x = Some("Hidden"), !.overflow.y = Some("Hidden")]

\* overflow_hidden_x writing both axes, as overflow_hidden does.
overflow_hidden_x_both_axes(s) ==
  [s EXCEPT !.overflow.x = Some("Hidden"), !.overflow.y = Some("Hidden")]

\* styled.rs:77-80  fn overflow_hidden_x
overflow_hidden_x(s) ==
  [s EXCEPT !.overflow.x = Some("Hidden")]

\* styled.rs:82-85  fn overflow_hidden_y
overflow_hidden_y(s) ==
  [s EXCEPT !.overflow.y = Some("Hidden")]

\* styled.rs:87-90  fn cursor
cursor(s, a) ==
  [s EXCEPT !.mouse_cursor = Some(a)]

\* styled.rs:92-97  fn cursor_default
cursor_default(s) ==
  [s EXCEPT !.mouse_cursor = Some("Arrow")]

\* styled.rs:99-104  fn cursor_pointer
cursor_pointer(s) ==
  [s EXCEPT !.mouse_cursor = Some("PointingHand")]

\* cursor_text keeping a cursor that is already set.
cursor_text_keeps_set(s) ==
  IF s.mouse_cursor = None THEN [s EXCEPT !.mouse_cursor = Some("IBeam")] ELSE s

\* styled.rs:106-111  fn cursor_text
cursor_text(s) ==
  [s EXCEPT !.mouse_cursor = Some("IBeam")]

\* styled.rs:113-118  fn cursor_move
cursor_move(s) ==
  [s EXCEPT !.mouse_cursor = Some("ClosedHand")]

\* styled.rs:120-125  fn cursor_not_allowed
cursor_not_allowed(s) ==
  [s EXCEPT !.mouse_cursor = Some("OperationNotAllowed")]

\* styled.rs:127-132  fn cursor_context_menu
cursor_context_menu(s) ==
  [s EXCEPT !.mouse_cursor = Some("ContextualMenu")]

\* styled.rs:134-139  fn cursor_crosshair
cursor_crosshair(s) ==
  [s EXCEPT !.mouse_cursor = Some("Crosshair")]

\* styled.rs:141-146  fn cursor_vertical_text
cursor_vertical_text(s) ==
  [s EXCEPT !.mouse_cursor = Some("IBeamCursorForVerticalLayout")]

\* styled.rs:148-153  fn cursor_alias
cursor_alias(s) ==
  [s EXCEPT !.mouse_cursor = Some("DragLink")]

\* styled.rs:155-160  fn cursor_copy
cursor_copy(s) ==
  [s EXCEPT !.mouse_cursor = Some("DragCopy")]

\* styled.rs:162-167  fn cursor_no_drop
cursor_no_drop(s) ==
  [s EXCEPT !.mouse_cursor = Some("OperationNotAllowed")]

\* styled.rs:169-174  fn cursor_grab
cursor_grab(s) ==
  [s EXCEPT !.mouse_cursor = Some("OpenHand")]

\* styled.rs:176-181  fn cursor_grabbing
cursor_grabbing(s) ==
  [s EXCEPT !.mouse_cursor = Some("ClosedHand")]

\* styled.rs:183-188  fn cursor_col_resize
cursor_col_resize(s) ==
  [s EXCEPT !.mouse_cursor = Some("ResizeLeftRight")]

\* styled.rs:190-195  fn cursor_row_resize
cursor_row_resize(s) ==
  [s EXCEPT !.mouse_cursor = Some("ResizeUpDown")]

\* styled.rs:197-202  fn cursor_n_resize
cursor_n_resize(s) ==
  [s EXCEPT !.mouse_cursor = Some("ResizeUp")]

\* styled.rs:204-209  fn cursor_e_resize
cursor_e_resize(s) ==
  [s EXCEPT !.mouse_cursor = Some("ResizeRight")]

\* styled.rs:211-216  fn cursor_s_resize
cursor_s_resize(s) ==
  [s EXCEPT !.mouse_cursor = Some("ResizeDown")]

\* styled.rs:218-223  fn cursor_w_resize
cursor_w_resize(s) ==
  [s EXCEPT !.mouse_cursor = Some("ResizeLeft")]

\* styled.rs:225-230  fn whitespace_normal
whitespace_normal(s) ==
  [s EXCEPT !.text.white_space = Some("Normal")]

\* styled.rs:232-237  fn whitespace_nowrap
whitespace_nowrap(s) ==
  [s EXCEPT !.text.white_space = Some("Nowrap")]

\* styled.rs:239-244  fn flex_col
flex_col(s) ==
  [s EXCEPT !.flex_direction = Some("Column")]

\* styled.rs:246-251  fn flex_col_reverse
flex_col_reverse(s) ==
  [s EXCEPT !.flex_direction = Some("ColumnReverse")]

\* styled.rs:253-258  fn flex_row
flex_row(s) ==
  [s EXCEPT !.flex_direction = Some("Row")]

\* styled.rs:260-265  fn flex_row_reverse
flex_row_reverse(s) ==
  [s EXCEPT !.flex_direction = Some("RowReverse")]

\* styled.rs:267-274  fn flex_1
flex_1(s) ==
  [s EXCEPT !.flex_grow = Some(1), !.flex_shrink = Some(1),
              !.flex_basis = Some(DefiniteIntoLength(gpui_relative(0)))]

\* styled.rs:276-283  fn flex_auto
flex_auto(s) ==
  [s EXCEPT !.flex_grow = Some(1), !.flex_shrink = Some(1),
              !.flex_basis = Some(LengthAuto)]

\* styled.rs:285-292  fn flex_initial
flex_initial(s) ==
  [s EXCEPT !.flex_grow = Some(0), !.flex_shrink = Some(1),
              !.flex_basis = Some(LengthAuto)]

\* flex_none also writing the basis, as flex_initial does.
flex_none_with_basis(s) ==
  [s EXCEPT !.flex_grow = Some(0), !.flex_shrink = Some(0),
            !.flex_basis = Some(LengthAuto)]

\* styled.rs:294-300  fn flex_none
flex_none(s) ==
  [s EXCEPT !.flex_grow = Some(0), !.flex_shrink = Some(0)]

\* styled.rs:302-307  fn flex_grow
flex_grow(s) ==
  [s EXCEPT !.flex_grow = Some(1)]

\* styled.rs:309-314  fn items_start
items_start(s) ==
  [s EXCEPT !.align_items = Some("FlexStart")]

\* styled.rs:316-321  fn items_end
items_end(s) ==
  [s EXCEPT !.align_items = Some("FlexEnd")]

\* styled.rs:323-328  fn items_center
items_center(s) ==
  [s EXCEPT !.align_items = Some("Center")]

\* styled.rs:330-336  fn justify_between
justify_between(s) ==
  [s EXCEPT !.justify_content = Some("SpaceBetween")]

\* styled.rs:338-343  fn justify_center
justify_center(s) ==
  [s EXCEPT !.justify_content = Some("Center")]

\* styled.rs:345-350  fn justify_start
justify_start(s) ==
  [s EXCEPT !.justify_content = Some("Start")]

\* styled.rs:352-357  fn justify_end
justify_end(s) ==
  [s EXCEPT !.justify_content = Some("End")]

\* styled.rs:359-365  fn justify_around
justify_around(s) ==
  [s EXCEPT !.justify_content = Some("SpaceAround")]

\* styled.rs:367-375  fn bg
bg(s, a) ==
  [s EXCEPT !.background = Some(HslaIntoFill(a))]

\* styled.rs:377-385  fn border_color
border_color(s, a) ==
  [s EXCEPT !.border_color = Some(a)]

\* styled.rs:387-392  fn shadow
shadow(s, a) ==
  [s EXCEPT !.box_shadow = Some(a)]

\* shadow_none returning the field to unset.
shadow_none_unset(s) ==
  [s EXCEPT !.box_shadow = None]

\* styled.rs:394-399  fn shadow_none
shadow_none(s) ==
  [s EXCEPT !.box_shadow = Some(<< >>)]

\* shadow_sm pushing its descriptor onto the list instead of assigning.
shadow_sm_appended(s) ==
  [s EXCEPT !.box_shadow = Some(
      Append(get_or_insert_with(s.box_shadow, << >>),
             BoxShadow(hsla(0, 0, 0, 5), point(px(0), px(1)), px(2), px(0))))]

\* styled.rs:401-411  fn shadow_sm
shadow_sm(s) ==
  [s EXCEPT !.box_shadow = Some(<<
      BoxShadow(hsla(0, 0, 0, 5), point(px(0), px(1)), px(2), px(0)) >>)]

\* styled.rs:413-431  fn shadow_md
shadow_md(s) ==
  [s EXCEPT !.box_shadow = Some(<<
      BoxShadow(hsla(50, 0, 0, 10), point(px(0), px(4)), px(6), px(-1)),
      BoxShadow(hsla(0, 0, 0, 10), point(px(0), px(2)), px(4), px(-2)) >>)]

\* styled.rs:433-451  fn shadow_lg
shadow_lg(s) ==
  [s EXCEPT !.box_shadow = Some(<<
      BoxShadow(hsla(0, 0, 0, 10), point(px(0), px(10)), px(15), px(-3)),
      BoxShadow(hsla(0, 0, 0, 10), point(px(0), px(4)), px(6), px(-4)) >>)]

\* styled.rs:453-471  fn shadow_xl
shadow_xl(s) ==
  [s EXCEPT !.box_shadow = Some(<<
      BoxShadow(hsla(0, 0, 0, 10), point(px(0), px(20)), px(25), px(-5)),
      BoxShadow(hsla(0, 0, 0, 10), point(px(0), px(8)), px(10), px(-6)) >>)]

\* styled.rs:473-483  fn shadow_2xl
shadow_2xl(s) ==
  [s EXCEPT !.box_shadow = Some(<<
      BoxShadow(hsla(0, 0, 0, 25), point(px(0), px(25)), px(50), px(-12)) >>)]

\* styled.rs:490-493  fn text_color
text_color(s, a) ==
  [s EXCEPT !.text.color = Some(a)]

\* styled.rs:495-498  fn text_bg
text_bg(s, a) ==
  [s EXCEPT !.text.background_color = Some(a)]

\* styled.rs:500-503  fn text_size
text_size(s, a) ==
  [s EXCEPT !.text.font_size = Some(a)]

\* styled.rs:505-508  fn text_xs
text_xs(s) ==
  [s EXCEPT !.text.font_size = Some(RemsIntoAbsoluteLength(rems(750)))]

\* styled.rs:510-513  fn text_sm
text_sm(s) ==
  [s EXCEPT !.text.font_size = Some(RemsIntoAbsoluteLength(rems(875)))]

\* styled.rs:515-518  fn text_base
text_base(s) ==
  [s EXCEPT !.text.font_size = Some(RemsIntoAbsoluteLength(rems(1000)))]

\* styled.rs:520-523  fn text_lg
text_lg(s) ==
  [s EXCEPT !.text.font_size = Some(RemsIntoAbsoluteLength(rems(1125)))]

\* styled.rs:525-528  fn text_xl
text_xl(s) ==
  [s EXCEPT !.text.font_size = Some(RemsIntoAbsoluteLength(rems(1250)))]

\* styled.rs:530-533  fn text_2xl
text_2xl(s) ==
  [s EXCEPT !.text.font_size = Some(RemsIntoAbsoluteLength(rems(1500)))]

\* styled.rs:535-538  fn text_3xl
text_3xl(s) ==
  [s EXCEPT !.text.font_size = Some(RemsIntoAbsoluteLength(rems(1875)))]

\* text_decoration_none zeroing the thickness of the descriptor instead of
\* dropping it.
text_decoration_none_zero_thickness(s) ==
  [s EXCEPT !.text.underline =
      IF s.text.underline = None THEN None
      ELSE Some([s.text.underline[1] EXCEPT !.thickness = px(0)])]

\* styled.rs:540-543  fn text_decoration_none
text_decoration_none(s) ==
  [s EXCEPT !.text.underline = None]

\* text_decoration_color building the descriptor anew instead of
\* get_or_insert_with.
text_decoration_color_rebuilt(s, a) ==
  [s EXCEPT !.text.underline =
      Some([UnderlineStyleDefault EXCEPT !.color = Some(a)])]

\* styled.rs:545-552  fn text_decoration_color
text_decoration_color(s, a) ==
  [s EXCEPT !.text.underline =
      Some([get_or_insert_with(s.text.underline, UnderlineStyleDefault)
              EXCEPT !.color = Some(a)])]

\* styled.rs:554-561  fn text_decoration_solid
text_decoration_solid(s) ==
  [s EXCEPT !.text.underline =
      Some([get_or_insert_with(s.text.underline, UnderlineStyleDefault)
              EXCEPT !.wavy = FALSE])]

\* text_decoration_wavy building the descriptor anew instead of
\* get_or_insert_with.
text_decoration_wavy_rebuilt(s) ==
  [s EXCEPT !.text.underline = Some([UnderlineStyleDefault EXCEPT !.wavy = TRUE])]

\* styled.rs:563-570  fn text_decoration_wavy
text_decoration_wavy(s) ==
  [s EXCEPT !.text.underline =
      Some([get_or_insert_with(s.text.underline, UnderlineStyleDefault)
              EXCEPT !.wavy = TRUE])]

\* text_decoration_0 dropping the descriptor, a line of no thickness being
\* no line.
text_decoration_0_unsets(s) ==
  [s EXCEPT !.text.underline = None]

\* styled.rs:572-579  fn text_decoration_0
text_decoration_0(s) ==
  [s EXCEPT !.text.underline =
      Some([get_or_insert_with(s.text.underline, UnderlineStyleDefault)
              EXCEPT !.thickness = px(0)])]

\* styled.rs:581-588  fn text_decoration_1
text_decoration_1(s) ==
  [s EXCEPT !.text.underline =
      Some([get_or_insert_with(s.text.underline, UnderlineStyleDefault)
              EXCEPT !.thickness = px(1)])]

\* text_decoration_2 with the thickness of text_decoration_1.
text_decoration_2_one_pixel(s) ==
  [s EXCEPT !.text.underline =
      Some([get_or_insert_with(s.text.underline, UnderlineStyleDefault)
              EXCEPT !.thickness = px(1)])]

\* styled.rs:590-597  fn text_decoration_2
text_decoration_2(s) ==
  [s EXCEPT !.text.underline =
      Some([get_or_insert_with(s.text.underline, UnderlineStyleDefault)
              EXCEPT !.thickness = px(2)])]

\* styled.rs:599-606  fn text_decoration_4
text_decoration_4(s) ==
  [s EXCEPT !.text.underline =
      Some([get_or_insert_with(s.text.underline, UnderlineStyleDefault)
              EXCEPT !.thickness = px(4)])]

\* styled.rs:608-615  fn text_decoration_8
text_decoration_8(s) ==
  [s EXCEPT !.text.underline =
      Some([get_or_insert_with(s.text.underline, UnderlineStyleDefault)
              EXCEPT !.thickness = px(8)])]

\* styled.rs:617-620  fn font
font(s, a) ==
  [s EXCEPT !.text.font_family = Some(a)]

\* styled.rs:622-625  fn line_height
line_height(s, a) ==
  [s EXCEPT !.text.line_height = Some(a)]
---------------------------------------------------------------------------
\* A call is a method name and the index of its argument (0: no argument).
NoCall == [name |-> "", arg |-> 0]

\* Method dispatch of a chained call `s.name(arg)`.
Apply(c, s) ==
  CASE c.name = "z_index" -> z_index(s, ZIndexArgs[c.arg])
    [] c.name = "full" -> full(s)
    [] c.name = "relative" -> relative(s)
    [] c.name = "absolute" -> absolute(s)
    [] c.name = "block" -> block(s)
    [] c.name = "flex" -> flex(s)
    [] c.name = "visible" -> visible(s)
    [] c.name = "invisible" -> invisible(s)
    [] c.name = "overflow_hidden" -> overflow_hidden(s)
    [] c.name = "overflow_hidden_x" -> overflow_hidden_x(s)
    [] c.name = "overflow_hidden_y" -> overflow_hidden_y(s)
    [] c.name = "cursor" -> cursor(s, CursorArgs[c.arg])
    [] c.name = "cursor_default" -> cursor_default(s)
    [] c.name = "cursor_pointer" -> cursor_pointer(s)
    [] c.name = "cursor_text" -> cursor_text(s)
    [] c.name = "cursor_move" -> cursor_move(s)
    [] c.name = "cursor_not_allowed" -> cursor_not_allowed(s)
    [] c.name = "cursor_context_menu" -> cursor_context_menu(s)
    [] c.name = "cursor_crosshair" -> cursor_crosshair(s)
    [] c.name = "cursor_vertical_text" -> cursor_vertical_text(s)
    [] c.name = "cursor_alias" -> cursor_alias(s)
    [] c.name = "cursor_copy" -> cursor_copy(s)
    [] c.name = "cursor_no_drop" -> cursor_no_drop(s)
    [] c.name = "cursor_grab" -> cursor_grab(s)
    [] c.name = "cursor_grabbing" -> cursor_grabbing(s)
    [] c.name = "cursor_col_resize" -> cursor_col_resize(s)
    [] c.name = "cursor_row_resize" -> cursor_row_resize(s)
    [] c.name = "cursor_n_resize" -> cursor_n_resize(s)
    [] c.name = "cursor_e_resize" -> cursor_e_resize(s)
    [] c.name = "cursor_s_resize" -> cursor_s_resize(s)
    [] c.name = "cursor_w_resize" -> cursor_w_resize(s)
    [] c.name = "whitespace_normal" -> whitespace_normal(s)
    [] c.name = "whitespace_nowrap" -> whitespace_nowrap(s)
    [] c.name = "flex_col" -> flex_col(s)
    [] c.name = "flex_col_reverse" -> flex_col_reverse(s)
    [] c.name = "flex_row" -> flex_row(s)
    [] c.name = "flex_row_reverse" -> flex_row_reverse(s)
    [] c.name = "flex_1" -> flex_1(s)
    [] c.name = "flex_auto" -> flex_auto(s)
    [] c.name = "flex_initial" -> flex_initial(s)
    [] c.name = "flex_none" -> flex_none(s)
    [] c.name = "flex_grow" -> flex_grow(s)
    [] c.name = "items_start" -> items_start(s)
    [] c.name = "items_end" -> items_end(s)
    [] c.name = "items_center" -> items_center(s)
    [] c.name = "justify_between" -> justify_between(s)
    [] c.name = "justify_center" -> justify_center(s)
    [] c.name = "justify_start" -> justify_start(s)
    [] c.name = "justify_end" -> justify_end(s)
    [] c.name = "justify_around" -> justify_around(s)
    [] c.name = "bg" -> bg(s, HslaArgs[c.arg])
    [] c.name = "border_color" -> border_color(s, HslaArgs[c.arg])
    [] c.name = "shadow" -> shadow(s, ShadowArgs[c.arg])
    [] c.name = "shadow_none" -> shadow_none(s)
    [] c.name = "shadow_sm" -> shadow_sm(s)
    [] c.name = "shadow_md" -> shadow_md(s)
    [] c.name = "shadow_lg" -> shadow_lg(s)
    [] c.name = "shadow_xl" -> shadow_xl(s)
    [] c.name = "shadow_2xl" -> shadow_2xl(s)
    [] c.name = "text_color" -> text_color(s, HslaArgs[c.arg])
    [] c.name = "text_bg" -> text_bg(s, HslaArgs[c.arg])
    [] c.name = "text_size" -> text_size(s, SizeArgs[c.arg])
    [] c.name = "text_xs" -> text_xs(s)
    [] c.name = "text_sm" -> text_sm(s)
    [] c.name = "text_base" -> text_base(s)
    [] c.name = "text_lg" -> text_lg(s)
    [] c.name = "text_xl" -> text_xl(s)
    [] c.name = "text_2xl" -> text_2xl(s)
    [] c.name = "text_3xl" -> text_3xl(s)
    [] c.name = "text_decoration_none" -> text_decoration_none(s)
    [] c.name = "text_decoration_color" -> text_decoration_color(s, HslaArgs[c.arg])
    [] c.name = "text_decoration_solid" -> text_decoration_solid(s)
    [] c.name = "text_decoration_wavy" -> text_decoration_wavy(s)
    [] c.name = "text_decoration_0" -> text_decoration_0(s)
    [] c.name = "text_decoration_1" -> text_decoration_1(s)
    [] c.name = "text_decoration_2" -> text_decoration_2(s)
    [] c.name = "text_decoration_4" -> text_decoration_4(s)
    [] c.name = "text_decoration_8" -> text_decoration_8(s)
    [] c.name = "font" -> font(s, FontArgs[c.arg])
    [] c.name = "line_height" -> line_height(s, LineHeightArgs[c.arg])

\* A record on which every field has been set by a chain of builder calls.
Populated ==
  LET s0 == StyleRefinementDefault
      s1 == z_index(s0, ZIndexArgs[2])
      s2 == full(s1)
      s3 == absolute(s2)
      s4 == block(s3)
      s5 == invisible(s4)
      s6 == overflow_hidden(s5)
      s7 == cursor(s6, CursorArgs[2])
      s8 == whitespace_nowrap(s7)
      s9 == flex_row_reverse(s8)
      s10 == flex_initial(s9)
      s11 == items_end(s10)
      s12 == justify_end(s11)
      s13 == bg(s12, HslaArgs[2])
      s14 == border_color(s13, HslaArgs[2])
      s15 == shadow(s14, ShadowArgs[2])
      s16 == text_color(s15, HslaArgs[2])
      s17 == text_bg(s16, HslaArgs[2])
      s18 == text_size(s17, SizeArgs[2])
      s19 == text_decoration_wavy(s18)
      s20 == text_decoration_4(s19)
      s21 == text_decoration_color(s20, HslaArgs[2])
      s22 == font(s21, FontArgs[2])
      s23 == line_height(s22, LineHeightArgs[2])
  IN  s23

\* The records a chain starts from.
StartRecords == {StyleRefinementDefault, Populated}

---------------------------------------------------------------------------
VARIABLES
  style,    \* the refinement record behind self.style()
  prev,     \* the record before the last call of the chain
  prev2,    \* the record before the call before it
  last,     \* the last call of the chain
  last2,    \* the call before it
  n,        \* number of calls made in the chain
  layers,   \* the cascade: committed records, lowest precedence first
  resolved, \* Some(resolved style) once the cascade has been resolved
  chain     \* the calls made on the record so far, oldest first

vars == << style, prev, prev2, last, last2, n, layers, resolved, chain >>

Init ==
  /\ style \in StartRecords
  /\ prev = style
  /\ prev2 = style
  /\ last = NoCall
  /\ last2 = NoCall
  /\ n = 0
  /\ layers = << >>
  /\ resolved = None
  /\ chain = << >>

\* The bookkeeping of one chained call c that returned record r: self is
\* moved in, its record mutated, self returned.
Called(c, r) ==
  /\ style' = r
  /\ prev' = style
  /\ prev2' = prev
  /\ last' = c
  /\ last2' = last
  /\ n' = n + 1
  /\ UNCHANGED << layers, resolved, chain >>

Call_z_index ==
  \E i \in DOMAIN ZIndexArgs :
    n < MaxCalls /\ Called([name |-> "z_index", arg |-> i], z_index(style, ZIndexArgs[i]))

Call_full ==
  n < MaxCalls /\ Called([name |-> "full", arg |-> 0], full(style))

Call_relative ==
  n < MaxCalls /\ Called([name |-> "relative", arg |-> 0], relative(style))

Call_absolute ==
  n < MaxCalls /\ Called([name |-> "absolute", arg |-> 0], absolute(style))

Call_block ==
  n < MaxCalls /\ Called([name |-> "block", arg |-> 0], block(style))

Call_flex ==
  n < MaxCalls /\ Called([name |-> "flex", arg |-> 0], flex(style))

Call_visible ==
  n < MaxCalls /\ Called([name |-> "visible", arg |-> 0], visible(style))

Call_invisible ==
  n < MaxCalls /\ Called([name |-> "invisible", arg |-> 0], invisible(style))

Call_overflow_hidden ==
  n < MaxCalls /\ Called([name |-> "overflow_hidden", arg |-> 0], overflow_hidden(style))

Call_overflow_hidden_x ==
  n < MaxCalls /\ Called([name |-> "overflow_hidden_x", arg |-> 0], overflow_hidden_x(style))

Call_overflow_hidden_y ==
  n < MaxCalls /\ Called([name |-> "overflow_hidden_y", arg |-> 0], overflow_hidden_y(style))

Call_cursor ==
  \E i \in DOMAIN CursorArgs :
    n < MaxCalls /\ Called([name |-> "cursor", arg |-> i], cursor(style, CursorArgs[i]))

Call_cursor_default ==
  n < MaxCalls /\ Called([name |-> "cursor_default", arg |-> 0], cursor_default(style))

Call_cursor_pointer ==
  n < MaxCalls /\ Called([name |-> "cursor_pointer", arg |-> 0], cursor_pointer(style))

Call_cursor_text ==
  n < MaxCalls /\ Called([name |-> "cursor_text", arg |-> 0], cursor_text(style))

Call_cursor_move ==
  n < MaxCalls /\ Called([name |-> "cursor_move", arg |-> 0], cursor_move(style))

Call_cursor_not_allowed ==
  n < MaxCalls /\ Called([name |-> "cursor_not_allowed", arg |-> 0], cursor_not_allowed(style))

Call_cursor_context_menu ==
  n < MaxCalls /\ Called([name |-> "cursor_context_menu", arg |-> 0], cursor_context_menu(style))

Call_cursor_crosshair ==
  n < MaxCalls /\ Called([name |-> "cursor_crosshair", arg |-> 0], cursor_crosshair(style))

Call_cursor_vertical_text ==
  n < MaxCalls /\ Called([name |-> "cursor_vertical_text", arg |-> 0], cursor_vertical_text(style))

Call_cursor_alias ==
  n < MaxCalls /\ Called([name |-> "cursor_alias", arg |-> 0], cursor_alias(style))

Call_cursor_copy ==
  n < MaxCalls /\ Called([name |-> "cursor_copy", arg |-> 0], cursor_copy(style))

Call_cursor_no_drop ==
  n < MaxCalls /\ Called([name |-> "cursor_no_drop", arg |-> 0], cursor_no_drop(style))

Call_cursor_grab ==
  n < MaxCalls /\ Called([name |-> "cursor_grab", arg |-> 0], cursor_grab(style))

Call_cursor_grabbing ==
  n < MaxCalls /\ Called([name |-> "cursor_grabbing", arg |-> 0], cursor_grabbing(style))

Call_cursor_col_resize ==
  n < MaxCalls /\ Called([name |-> "cursor_col_resize", arg |-> 0], cursor_col_resize(style))

Call_cursor_row_resize ==
  n < MaxCalls /\ Called([name |-> "cursor_row_resize", arg |-> 0], cursor_row_resize(style))

Call_cursor_n_resize ==
  n < MaxCalls /\ Called([name |-> "cursor_n_resize", arg |-> 0], cursor_n_resize(style))

Call_cursor_e_resize ==
  n < MaxCalls /\ Called([name |-> "cursor_e_resize", arg |-> 0], cursor_e_resize(style))

Call_cursor_s_resize ==
  n < MaxCalls /\ Called([name |-> "cursor_s_resize", arg |-> 0], cursor_s_resize(style))

Call_cursor_w_resize ==
  n < MaxCalls /\ Called([name |-> "cursor_w_resize", arg |-> 0], cursor_w_resize(style))

Call_whitespace_normal ==
  n < MaxCalls /\ Called([name |-> "whitespace_normal", arg |-> 0], whitespace_normal(style))

Call_whitespace_nowrap ==
  n < MaxCalls /\ Called([name |-> "whitespace_nowrap", arg |-> 0], whitespace_nowrap(style))

Call_flex_col ==
  n < MaxCalls /\ Called([name |-> "flex_col", arg |-> 0], flex_col(style))

Call_flex_col_reverse ==
  n < MaxCalls /\ Called([name |-> "flex_col_reverse", arg |-> 0], flex_col_reverse(style))

Call_flex_row ==
  n < MaxCalls /\ Called([name |-> "flex_row", arg |-> 0], flex_row(style))

Call_flex_row_reverse ==
  n < MaxCalls /\ Called([name |-> "flex_row_reverse", arg |-> 0], flex_row_reverse(style))

Call_flex_1 ==
  n < MaxCalls /\ Called([name |-> "flex_1", arg |-> 0], flex_1(style))

Call_flex_auto ==
  n < MaxCalls /\ Called([name |-> "flex_auto", arg |-> 0], flex_auto(style))

Call_flex_initial ==
  n < MaxCalls /\ Called([name |-> "flex_initial", arg |-> 0], flex_initial(style))

Call_flex_none ==
  n < MaxCalls /\ Called([name |-> "flex_none", arg |-> 0], flex_none(style))

Call_flex_grow ==
  n < MaxCalls /\ Called([name |-> "flex_grow", arg |-> 0], flex_grow(style))

Call_items_start ==
  n < MaxCalls /\ Called([name |-> "items_start", arg |-> 0], items_start(style))

Call_items_end ==
  n < MaxCalls /\ Called([name |-> "items_end", arg |-> 0], items_end(style))

Call_items_center ==
  n < MaxCalls /\ Called([name |-> "items_center", arg |-> 0], items_center(style))

Call_justify_between ==
  n < MaxCalls /\ Called([name |-> "justify_between", arg |-> 0], justify_between(style))

Call_justify_center ==
  n < MaxCalls /\ Called([name |-> "justify_center", arg |-> 0], justify_center(style))

Call_justify_start ==
  n < MaxCalls /\ Called([name |-> "justify_start", arg |-> 0], justify_start(style))

Call_justify_end ==
  n < MaxCalls /\ Called([name |-> "justify_end", arg |-> 0], justify_end(style))

Call_justify_around ==
  n < MaxCalls /\ Called([name |-> "justify_around", arg |-> 0], justify_around(style))

Call_bg ==
  \E i \in DOMAIN HslaArgs :
    n < MaxCalls /\ Called([name |-> "bg", arg |-> i], bg(style, HslaArgs[i]))

Call_border_color ==
  \E i \in DOMAIN HslaArgs :
    n < MaxCalls /\ Called([name |-> "border_color", arg |-> i], border_color(style, HslaArgs[i]))

Call_shadow ==
  \E i \in DOMAIN ShadowArgs :
    n < MaxCalls /\ Called([name |-> "shadow", arg |-> i], shadow(style, ShadowArgs[i]))

Call_shadow_none ==
  n < MaxCalls /\ Called([name |-> "shadow_none", arg |-> 0], shadow_none(style))

Call_shadow_sm ==
  n < MaxCalls /\ Called([name |-> "shadow_sm", arg |-> 0], shadow_sm(style))

Call_shadow_md ==
  n < MaxCalls /\ Called([name |-> "shadow_md", arg |-> 0], shadow_md(style))

Call_shadow_lg ==
  n < MaxCalls /\ Called([name |-> "shadow_lg", arg |-> 0], shadow_lg(style))

Call_shadow_xl ==
  n < MaxCalls /\ Called([name |-> "shadow_xl", arg |-> 0], shadow_xl(style))

Call_shadow_2xl ==
  n < MaxCalls /\ Called([name |-> "shadow_2xl", arg |-> 0], shadow_2xl(style))

Call_text_color ==
  \E i \in DOMAIN HslaArgs :
    n < MaxCalls /\ Called([name |-> "text_color", arg |-> i], text_color(style, HslaArgs[i]))

Call_text_bg ==
  \E i \in DOMAIN HslaArgs :
    n < MaxCalls /\ Called([name |-> "text_bg", arg |-> i], text_bg(style, HslaArgs[i]))

Call_text_size ==
  \E i \in DOMAIN SizeArgs :
    n < MaxCalls /\ Called([name |-> "text_size", arg |-> i], text_size(style, SizeArgs[i]))

Call_text_xs ==
  n < MaxCalls /\ Called([name |-> "text_xs", arg |-> 0], text_xs(style))

Call_text_sm ==
  n < MaxCalls /\ Called([name |-> "text_sm", arg |-> 0], text_sm(style))

Call_text_base ==
  n < MaxCalls /\ Called([name |-> "text_base", arg |-> 0], text_base(style))

Call_text_lg ==
  n < MaxCalls /\ Called([name |-> "text_lg", arg |-> 0], text_lg(style))

Call_text_xl ==
  n < MaxCalls /\ Called([name |-> "text_xl", arg |-> 0], text_xl(style))

Call_text_2xl ==
  n < MaxCalls /\ Called([name |-> "text_2xl", arg |-> 0], text_2xl(style))

Call_text_3xl ==
  n < MaxCalls /\ Called([name |-> "text_3xl", arg |-> 0], text_3xl(style))

Call_text_decoration_none ==
  n < MaxCalls /\ Called([name |-> "text_decoration_none", arg |-> 0], text_decoration_none(style))

Call_text_decoration_color ==
  \E i \in DOMAIN HslaArgs :
    n < MaxCalls /\ Called([name |-> "text_decoration_color", arg |-> i], text_decoration_color(style, HslaArgs[i]))

Call_text_decoration_solid ==
  n < MaxCalls /\ Called([name |-> "text_decoration_solid", arg |-> 0], text_decoration_solid(style))

Call_text_decoration_wavy ==
  n < MaxCalls /\ Called([name |-> "text_decoration_wavy", arg |-> 0], text_decoration_wavy(style))

Call_text_decoration_0 ==
  n < MaxCalls /\ Called([name |-> "text_decoration_0", arg |-> 0], text_decoration_0(style))

Call_text_decoration_1 ==
  n < MaxCalls /\ Called([name |-> "text_decoration_1", arg |-> 0], text_decoration_1(style))

Call_text_decoration_2 ==
  n < MaxCalls /\ Called([name |-> "text_decoration_2", arg |-> 0], text_decoration_2(style))

Call_text_decoration_4 ==
  n < MaxCalls /\ Called([name |-> "text_decoration_4", arg |-> 0], text_decoration_4(style))

Call_text_decoration_8 ==
  n < MaxCalls /\ Called([name |-> "text_decoration_8", arg |-> 0], text_decoration_8(style))

Call_font ==
  \E i \in DOMAIN FontArgs :
    n < MaxCalls /\ Called([name |-> "font", arg |-> i], font(style, FontArgs[i]))

Call_line_height ==
  \E i \in DOMAIN LineHeightArgs :
    n < MaxCalls /\ Called([name |-> "line_height", arg |-> i], line_height(style, LineHeightArgs[i]))

Next ==
  \/ Call_z_index
  \/ Call_full
  \/ Call_relative
  \/ Call_absolute
  \/ Call_block
  \/ Call_flex
  \/ Call_visible
  \/ Call_invisible
  \/ Call_overflow_hidden
  \/ Call_overflow_hidden_x
  \/ Call_overflow_hidden_y
  \/ Call_cursor
  \/ Call_cursor_default
  \/ Call_cursor_pointer
  \/ Call_cursor_text
  \/ Call_cursor_move
  \/ Call_cursor_not_allowed
  \/ Call_cursor_context_menu
  \/ Call_cursor_crosshair
  \/ Call_cursor_vertical_text
  \/ Call_cursor_alias
  \/ Call_cursor_copy
  \/ Call_cursor_no_drop
  \/ Call_cursor_grab
  \/ Call_cursor_grabbing
  \/ Call_cursor_col_resize
  \/ Call_cursor_row_resize
  \/ Call_cursor_n_resize
  \/ Call_cursor_e_resize
  \/ Call_cursor_s_resize
  \/ Call_cursor_w_resize
  \/ Call_whitespace_normal
  \/ Call_whitespace_nowrap
  \/ Call_flex_col
  \/ Call_flex_col_reverse
  \/ Call_flex_row
  \/ Call_flex_row_reverse
  \/ Call_flex_1
  \/ Call_flex_auto
  \/ Call_flex_initial
  \/ Call_flex_none
  \/ Call_flex_grow
  \/ Call_items_start
  \/ Call_items_end
  \/ Call_items_center
  \/ Call_justify_between
  \/ Call_justify_center
  \/ Call_justify_start
  \/ Call_justify_end
  \/ Call_justify_around
  \/ Call_bg
  \/ Call_border_color
  \/ Call_shadow
  \/ Call_shadow_none
  \/ Call_shadow_sm
  \/ Call_shadow_md
  \/ Call_shadow_lg
  \/ Call_shadow_xl
  \/ Call_shadow_2xl
  \/ Call_text_color
  \/ Call_text_bg
  \/ Call_text_size
  \/ Call_text_xs
  \/ Call_text_sm
  \/ Call_text_base
  \/ Call_text_lg
  \/ Call_text_xl
  \/ Call_text_2xl
  \/ Call_text_3xl
  \/ Call_text_decoration_none
  \/ Call_text_decoration_color
  \/ Call_text_decoration_solid
  \/ Call_text_decoration_wavy
  \/ Call_text_decoration_0
  \/ Call_text_decoration_1
  \/ Call_text_decoration_2
  \/ Call_text_decoration_4
  \/ Call_text_decoration_8
  \/ Call_font
  \/ Call_line_height

Spec == Init /\ [][Next]_vars

---------------------------------------------------------------------------
\* The cascade merge engine (spec.md 4.3; its code is outside styled.rs).

\* The fields of a refinement record, by path.
Fields ==
  {"z_index", "size.width", "size.height", "position", "display",
   "visibility", "overflow.x", "overflow.y", "mouse_cursor",
   "flex_direction", "flex_grow", "flex_shrink", "flex_basis",
   "align_items", "justify_content", "background", "border_color",
   "box_shadow", "text.white_space", "text.color", "text.background_color",
   "text.font_size", "text.underline", "text.font_family",
   "text.line_height"}

\* The Option held by field f of record s.
Get(s, f) ==
  CASE f = "z_index" -> s.z_index
    [] f = "size.width" -> s.size.width
    [] f = "size.height" -> s.size.height
    [] f = "position" -> s.position
    [] f = "display" -> s.display
    [] f = "visibility" -> s.visibility
    [] f = "overflow.x" -> s.overflow.x
    [] f = "overflow.y" -> s.overflow.y
    [] f = "mouse_cursor" -> s.mouse_cursor
    [] f = "flex_direction" -> s.flex_direction
    [] f = "flex_grow" -> s.flex_grow
    [] f = "flex_shrink" -> s.flex_shrink
    [] f = "flex_basis" -> s.flex_basis
    [] f = "align_items" -> s.align_items
    [] f = "justify_content" -> s.justify_content
    [] f = "background" -> s.background
    [] f = "border_color" -> s.border_color
    [] f = "box_shadow" -> s.box_shadow
    [] f = "text.white_space" -> s.text.white_space
    [] f = "text.color" -> s.text.color
    [] f = "text.background_color" -> s.text.background_color
    [] f = "text.font_size" -> s.text.font_size
    [] f = "text.underline" -> s.text.underline
    [] f = "text.font_family" -> s.text.font_family
    [] f = "text.line_height" -> s.text.line_height

\* A resolved underline that draws nothing.
NoDecoration == [decoration |-> "none"]

\* The fixed baseline default of every field (spec.md 4.3: block display,
\* static position, zero flex factors, transparent fill, visible, default
\* cursor, empty shadow list; the text fields stand for the text style
\* inherited from the nearest ancestor).
Baseline ==
  [f \in Fields |->
    CASE f = "z_index" -> 0
      [] f = "size.width" -> LengthAuto
      [] f = "size.height" -> LengthAuto
      [] f = "position" -> "Static"
      [] f = "display" -> "Block"
      [] f = "visibility" -> "Visible"
      [] f = "overflow.x" -> "Visible"
      [] f = "overflow.y" -> "Visible"
      [] f = "mouse_cursor" -> "Arrow"
      [] f = "flex_direction" -> "Row"
      [] f = "flex_grow" -> 0
      [] f = "flex_shrink" -> 0
      [] f = "flex_basis" -> LengthAuto
      [] f = "align_items" -> "Stretch"
      [] f = "justify_content" -> "Start"
      [] f = "background" -> HslaIntoFill(hsla(0, 0, 0, 0))
      [] f = "border_color" -> hsla(0, 0, 0, 0)
      [] f = "box_shadow" -> << >>
      [] f = "text.white_space" -> "Normal"
      [] f = "text.color" -> hsla(0, 0, 0, 100)
      [] f = "text.background_color" -> hsla(0, 0, 0, 0)
      [] f = "text.font_size" -> RemsIntoAbsoluteLength(rems(1000))
      [] f = "text.underline" -> NoDecoration
      [] f = "text.font_family" -> "Helvetica"
      [] f = "text.line_height" -> gpui_relative(130)]

\* A fold in which the first layer that set a field keeps it.
refine_lowest_wins(base, layer) ==
  [f \in Fields |->
    IF Get(layer, f) = None \/ base[f] # Baseline[f]
    THEN base[f] ELSE Get(layer, f)[1]]

\* One step of the fold: a field the layer set replaces the value so far,
\* a field it left None contributes nothing.
refine(base, layer) ==
  [f \in Fields |->
    IF Get(layer, f) = None THEN base[f] ELSE Get(layer, f)[1]]

\* The fold over the layers, lowest precedence first.
RECURSIVE refined(_, _)
refined(base, ls) ==
  IF ls = << >> THEN base ELSE refined(refine(base, Head(ls)), Tail(ls))

\* The builder calls the layers of a cascade are built with.
LayerCalls ==
  {[name |-> m, arg |-> 0] :
     m \in {"shadow_sm", "shadow_md", "shadow_none", "cursor_pointer",
            "text_decoration_2", "text_decoration_wavy",
            "text_decoration_none"}}

CascadeInit ==
  /\ style = StyleRefinementDefault
  /\ prev = style
  /\ prev2 = style
  /\ last = NoCall
  /\ last2 = NoCall
  /\ n = 0
  /\ layers = << >>
  /\ resolved = None
  /\ chain = << >>

\* A builder call on the record of the layer under construction.
LayerCall ==
  \E c \in LayerCalls :
    /\ resolved = None
    /\ Len(layers) < MaxLayers
    /\ style' = Apply(c, style)
    /\ last' = c
    /\ UNCHANGED << prev, prev2, last2, n, layers, resolved, chain >>

\* The record under construction becomes the next, higher layer; last2
\* remembers the last call that built it.
PushLayer ==
  /\ resolved = None
  /\ Len(layers) < MaxLayers
  /\ layers' = Append(layers, style)
  /\ last2' = last
  /\ style' = StyleRefinementDefault
  /\ last' = NoCall
  /\ UNCHANGED << prev, prev2, n, resolved, chain >>

\* One resolution pass over the committed layers.
Resolve ==
  /\ resolved = None
  /\ style = StyleRefinementDefault
  /\ last = NoCall
  /\ resolved' = Some(refined(Baseline, layers))
  /\ UNCHANGED << style, prev, prev2, last, last2, n, layers, chain >>

CascadeNext == LayerCall \/ PushLayer \/ Resolve

SpecCascade == CascadeInit /\ [][CascadeNext]_vars

---------------------------------------------------------------------------
\* A chain of calls followed whole: the underline methods (styled.rs:540-615)
\* and, between them, calls on other fields.
ChainCalls ==
  {[name |-> m, arg |-> 0] :
     m \in {"text_decoration_none", "text_decoration_solid",
            "text_decoration_wavy", "text_decoration_0", "text_decoration_1",
            "text_decoration_2", "text_decoration_4", "text_decoration_8",
            "shadow_none", "cursor_pointer"}}
  \cup {[name |-> "text_decoration_color", arg |-> i] : i \in DOMAIN HslaArgs}

ChainInit ==
  /\ style \in StartRecords
  /\ prev = style
  /\ prev2 = style
  /\ last = NoCall
  /\ last2 = NoCall
  /\ n = 0
  /\ layers = << >>
  /\ resolved = None
  /\ chain = << >>

\* One more call of the chain.
ChainCall ==
  \E c \in ChainCalls :
    /\ Len(chain) < MaxChain
    /\ style' = Apply(c, style)
    /\ chain' = Append(chain, c)
    /\ UNCHANGED << prev, prev2, last, last2, n, layers, resolved >>

SpecChain == ChainInit /\ [][ChainCall]_vars

---------------------------------------------------------------------------
\* The field(s) each builder method is meant to touch (spec.md 4.2), by
\* method name.  The underline descriptor counts as one field here.
Targets(m) ==
  CASE m \in {"z_index"} ->
         {"z_index"}
    [] m \in {"full"} ->
         {"size.width", "size.height"}
    [] m \in {"relative", "absolute"} ->
         {"position"}
    [] m \in {"block", "flex"} ->
         {"display"}
    [] m \in {"visible", "invisible"} ->
         {"visibility"}
    [] m \in {"overflow_hidden"} ->
         {"overflow.x", "overflow.y"}
    [] m \in {"overflow_hidden_x"} ->
         {"overflow.x"}
    [] m \in {"overflow_hidden_y"} ->
         {"overflow.y"}
    [] m \in {"cursor", "cursor_default", "cursor_pointer", "cursor_text",
        "cursor_move", "cursor_not_allowed", "cursor_context_menu",
        "cursor_crosshair", "cursor_vertical_text", "cursor_alias",
        "cursor_copy", "cursor_no_drop", "cursor_grab", "cursor_grabbing",
        "cursor_col_resize", "cursor_row_resize", "cursor_n_resize",
        "cursor_e_resize", "cursor_s_resize", "cursor_w_resize"} ->
         {"mouse_cursor"}
    [] m \in {"whitespace_normal", "whitespace_nowrap"} ->
         {"text.white_space"}
    [] m \in {"flex_col", "flex_col_reverse", "flex_row",
        "flex_row_reverse"} ->
         {"flex_direction"}
    [] m \in {"flex_1", "flex_auto", "flex_initial"} ->
         {"flex_grow", "flex_shrink", "flex_basis"}
    [] m \in {"flex_none"} ->
         {"flex_grow", "flex_shrink"}
    [] m \in {"flex_grow"} ->
         {"flex_grow"}
    [] m \in {"items_start", "items_end", "items_center"} ->
         {"align_items"}
    [] m \in {"justify_between", "justify_center", "justify_start",
        "justify_end", "justify_around"} ->
         {"justify_content"}
    [] m \in {"bg"} ->
         {"background"}
    [] m \in {"border_color"} ->
         {"border_color"}
    [] m \in {"shadow", "shadow_none", "shadow_sm", "shadow_md",
        "shadow_lg", "shadow_xl", "shadow_2xl"} ->
         {"box_shadow"}
    [] m \in {"text_color"} ->
         {"text.color"}
    [] m \in {"text_bg"} ->
         {"text.background_color"}
    [] m \in {"text_size", "text_xs", "text_sm", "text_base", "text_lg",
        "text_xl", "text_2xl", "text_3xl"} ->
         {"text.font_size"}
    [] m \in {"text_decoration_none", "text_decoration_color",
        "text_decoration_solid", "text_decoration_wavy",
        "text_decoration_0", "text_decoration_1", "text_decoration_2",
        "text_decoration_4", "text_decoration_8"} ->
         {"text.underline"}
    [] m \in {"font"} ->
         {"text.font_family"}
    [] m \in {"line_height"} ->
         {"text.line_height"}

ThicknessSetters ==
  {"text_decoration_0", "text_decoration_1", "text_decoration_2",
   "text_decoration_4", "text_decoration_8"}

WavySetters == {"text_decoration_solid", "text_decoration_wavy"}

\* The setters that go through the materialize-then-mutate path.
UnderlineSetters ==
  {"text_decoration_color"} \cup WavySetters \cup ThicknessSetters

\* As Targets, with the underline descriptor split into its sub-fields.
FineTargets(m) ==
  CASE m = "text_decoration_none" ->
         {"underline.color", "underline.wavy", "underline.thickness"}
    [] m = "text_decoration_color" -> {"underline.color"}
    [] m \in WavySetters -> {"underline.wavy"}
    [] m \in ThicknessSetters -> {"underline.thickness"}
    [] OTHER -> Targets(m)

\* C1: a builder call changes the record only in the field(s) the called
\* method targets; every other field, set or unset, keeps its value.
Thm_C1_FrameOfCall ==
  n >= 1 =>
    \A f \in Fields \ Targets(last.name) : Get(style, f) = Get(prev, f)

\* C1 witness: flex_none changed the shrink factor of a record whose basis
\* was set, and the basis is still there.
Wit_C1_FlexNoneKeepsBasis ==
  /\ n >= 1
  /\ last.name = "flex_none"
  /\ prev.flex_basis # None
  /\ style.flex_shrink # prev.flex_shrink
  /\ style.flex_basis = prev.flex_basis

\* C2: two chained calls of setters of the same single field leave the
\* record that the second call alone would have left (last write wins).
Thm_C2_LastWriteWins ==
  (/\ n >= 2
   /\ Cardinality(FineTargets(last.name)) = 1
   /\ FineTargets(last2.name) = FineTargets(last.name))
  => style = Apply(last, prev2)

\* C2 witness: cursor_pointer then cursor_text on a record whose cursor was
\* already set to something else.
Wit_C2_PointerThenText ==
  /\ n >= 2
  /\ last2.name = "cursor_pointer"
  /\ last.name = "cursor_text"
  /\ prev2.mouse_cursor = Some("ResizeUpDown")
  /\ prev.mouse_cursor = Some("PointingHand")
  /\ style.mouse_cursor = Some("IBeam")

\* C3: two chained calls whose targeted fields do not overlap leave the
\* record that the same two calls leave in the other order.
Thm_C3_DisjointCommute ==
  (/\ n >= 2
   /\ FineTargets(last2.name) \cap FineTargets(last.name) = {})
  => style = Apply(last2, Apply(last, prev2))

\* C3 witness: text_decoration_wavy then text_decoration_2 on a record with
\* no underline descriptor.
Wit_C3_WavyThenThickness ==
  /\ n >= 2
  /\ last2.name = "text_decoration_wavy"
  /\ last.name = "text_decoration_2"
  /\ prev2.text.underline = None
  /\ style.text.underline =
       Some([color |-> None, wavy |-> TRUE, thickness |-> px(2)])

\* C4 (as claimed): a record whose underline was cleared by
\* text_decoration_none after sub-fields had been set differs from the same
\* record with an underline that was never touched.
Cex_C4_ClearIsDistinguishable ==
  (/\ n >= 1
   /\ last.name = "text_decoration_none"
   /\ prev.text.underline # None)
  => style # [prev EXCEPT !.text.underline =
                            StyleRefinementDefault.text.underline]

\* The value an underline setter requests for the sub-field it touches.
RequestedColor(c, old) ==
  IF c.name = "text_decoration_color" THEN Some(HslaArgs[c.arg]) ELSE old

RequestedWavy(c, old) ==
  CASE c.name = "text_decoration_solid" -> FALSE
    [] c.name = "text_decoration_wavy" -> TRUE
    [] OTHER -> old

RequestedThickness(c, old) ==
  CASE c.name = "text_decoration_0" -> [px |-> 0]
    [] c.name = "text_decoration_1" -> [px |-> 1]
    [] c.name = "text_decoration_2" -> [px |-> 2]
    [] c.name = "text_decoration_4" -> [px |-> 4]
    [] c.name = "text_decoration_8" -> [px |-> 8]
    [] OTHER -> old

\* C5: an underline setter called on a record without underline descriptor
\* leaves a present descriptor: the touched sub-field as requested, the
\* others at color none, wavy false, thickness 0.
Thm_C5_LazyMaterialization ==
  (/\ n >= 1
   /\ last.name \in UnderlineSetters
   /\ prev.text.underline = None)
  => style.text.underline =
       Some([color |-> RequestedColor(last, << >>),
             wavy |-> RequestedWavy(last, FALSE),
             thickness |-> RequestedThickness(last, [px |-> 0])])

\* C5 witness: text_decoration_2 on an untouched record.
Wit_C5_ThicknessOnUntouched ==
  /\ n = 1
  /\ last.name = "text_decoration_2"
  /\ prev = StyleRefinementDefault
  /\ style.text.underline =
       Some([color |-> << >>, wavy |-> FALSE, thickness |-> [px |-> 2]])

\* C6: an underline setter called on a record with a present descriptor
\* changes its own sub-field and keeps the other two as they were.
Thm_C6_SiblingsKept ==
  (/\ n >= 1
   /\ last.name \in UnderlineSetters
   /\ prev.text.underline # None)
  => /\ style.text.underline # None
     /\ LET old == prev.text.underline[1]
            new == style.text.underline[1]
        IN  /\ new.color = RequestedColor(last, old.color)
            /\ new.wavy = RequestedWavy(last, old.wavy)
            /\ new.thickness = RequestedThickness(last, old.thickness)

\* C6 witness: text_decoration_color on a wavy descriptor of thickness 4
\* that held another color.
Wit_C6_ColorOnWavyDescriptor ==
  /\ n >= 1
  /\ last.name = "text_decoration_color"
  /\ prev.text.underline =
       Some([color |-> Some(HslaArgs[2]), wavy |-> TRUE,
             thickness |-> [px |-> 4]])
  /\ style.text.underline =
       Some([color |-> Some(HslaArgs[1]), wavy |-> TRUE,
             thickness |-> [px |-> 4]])

ShadowPresets ==
  {"shadow_sm", "shadow_md", "shadow_lg", "shadow_xl", "shadow_2xl"}

\* y offset, blur, spread and alpha of a shadow descriptor.
Metrics(b) == << b.offset.x, b.offset.y, b.blur_radius, b.spread_radius,
                 b.color.a >>

\* C7: a shadow preset replaces the list by its fixed sequence of 1 or 2
\* descriptors whatever the list held, shadow_none by the empty list;
\* shadow_sm and shadow_2xl give the single descriptor of spec.md 8.
Thm_C7_ShadowPresets ==
  n >= 1 =>
    /\ last.name = "shadow_none" => style.box_shadow = Some(<< >>)
    /\ last.name \in ShadowPresets =>
         /\ style.box_shadow # None
         /\ Len(style.box_shadow[1]) \in {1, 2}
         /\ style.box_shadow = Apply(last, StyleRefinementDefault).box_shadow
    /\ last.name = "shadow_sm" =>
         /\ Len(style.box_shadow[1]) = 1
         /\ Metrics(style.box_shadow[1][1]) =
              << [px |-> 0], [px |-> 1], [px |-> 2], [px |-> 0], 5 >>
    /\ last.name = "shadow_2xl" =>
         /\ Len(style.box_shadow[1]) = 1
         /\ Metrics(style.box_shadow[1][1]) =
              << [px |-> 0], [px |-> 25], [px |-> 50], [px |-> -12], 25 >>

\* C7 witness: shadow_sm on a record that held a list of two descriptors.
Wit_C7_SmallOverTwo ==
  /\ n >= 1
  /\ last.name = "shadow_sm"
  /\ prev.box_shadow # None
  /\ Len(prev.box_shadow[1]) = 2
  /\ Len(style.box_shadow[1]) = 1

\* basis = 0% of the container, and basis = auto.
BasisZero == [length |-> "Definite", d |-> [definite |-> "Fraction", v |-> 0]]

BasisAuto == [length |-> "Auto"]

\* C8: the values the flex shorthand presets set, and the factors
\* flex_none and flex_grow leave alone.
Thm_C8_FlexPresets ==
  n >= 1 =>
    LET g == style.flex_grow
        k == style.flex_shrink
        b == style.flex_basis
    IN  /\ last.name = "flex_1" =>
              g = Some(1) /\ k = Some(1) /\ b = Some(BasisZero)
        /\ last.name = "flex_auto" =>
              g = Some(1) /\ k = Some(1) /\ b = Some(BasisAuto)
        /\ last.name = "flex_initial" =>
              g = Some(0) /\ k = Some(1) /\ b = Some(BasisAuto)
        /\ last.name = "flex_none" =>
              g = Some(0) /\ k = Some(0) /\ b = prev.flex_basis
        /\ last.name = "flex_grow" =>
              g = Some(1) /\ k = prev.flex_shrink /\ b = prev.flex_basis

\* C8 witness: flex_1 undone by flex_none, the 0% basis kept.
Wit_C8_FlexOneThenNone ==
  /\ n >= 2
  /\ last2.name = "flex_1"
  /\ last.name = "flex_none"
  /\ style.flex_grow = Some(0)
  /\ style.flex_shrink = Some(0)
  /\ style.flex_basis = Some(BasisZero)

ShadowMethods == ShadowPresets \cup {"shadow", "shadow_none"}

\* C9: the resolved shadow list is the list of the highest layer when a
\* shadow builder call set it (the empty list after shadow_none), never a
\* concatenation with the lower layer's; when the highest layer holds no
\* list, it is the list of the layer below.
Thm_C9_ShadowAcrossCascade ==
  (resolved # None /\ Len(layers) >= 2) =>
    LET hi == layers[Len(layers)].box_shadow
        lo == layers[Len(layers) - 1].box_shadow
        out == resolved[1]["box_shadow"]
    IN  /\ last2.name \in ShadowMethods => hi # None
        /\ last2.name = "shadow_none" => out = << >>
        /\ hi # None => out = hi[1]
        /\ (hi = None /\ lo # None) => out = lo[1]

\* C9 witness: a one-descriptor list below, a two-descriptor list above,
\* and the two descriptors alone in the resolved style.
Wit_C9_TwoOverOne ==
  /\ resolved # None
  /\ Len(layers) = 2
  /\ layers[1].box_shadow # None
  /\ layers[2].box_shadow # None
  /\ Len(layers[1].box_shadow[1]) = 1
  /\ Len(layers[2].box_shadow[1]) = 2
  /\ resolved[1]["box_shadow"] = layers[2].box_shadow[1]

\* The value of field f in the highest of the first i layers that set it,
\* the baseline default when none of them did.
RECURSIVE HighestSet(_, _, _)
HighestSet(ls, f, i) ==
  IF i = 0 THEN Baseline[f]
  ELSE IF Get(ls[i], f) # None THEN Get(ls[i], f)[1]
  ELSE HighestSet(ls, f, i - 1)

\* C10: a resolution pass gives every field the value of the highest layer
\* that set it, the baseline default when no layer did, for every field of
\* the record, and leaves the layers as they were.
Thm_C10_CascadeResolution ==
  [][(resolved = None /\ resolved' # None) =>
       /\ layers' = layers
       /\ DOMAIN resolved'[1] = Fields
       /\ \A f \in Fields :
            resolved'[1][f] = HighestSet(layers, f, Len(layers))]_vars

\* C10 witness: the cursor set in the lower layer only, the shadow list set
\* in both with different values, no layer with an underline.
Wit_C10_FallThroughAndOverride ==
  /\ resolved # None
  /\ Len(layers) = 2
  /\ layers[1].mouse_cursor # None
  /\ layers[2].mouse_cursor = None
  /\ layers[1].box_shadow # None
  /\ layers[2].box_shadow # None
  /\ layers[1].box_shadow # layers[2].box_shadow
  /\ layers[1].text.underline = None
  /\ layers[2].text.underline = None
  /\ resolved[1]["mouse_cursor"] = "PointingHand"
  /\ resolved[1]["box_shadow"] = layers[2].box_shadow[1]
  /\ resolved[1]["text.underline"] = NoDecoration
  /\ resolved[1]["display"] = "Block"

\* The descriptor that the underline setters among the calls cs build on
\* the absent or present descriptor u, the untouched sub-fields of a new
\* descriptor at color none, wavy false, thickness 0.
RECURSIVE Rebuilt(_, _)
Rebuilt(u, cs) ==
  IF cs = << >> THEN u
  ELSE LET c == Head(cs)
           old == IF u = << >>
                  THEN [color |-> << >>, wavy |-> FALSE, thickness |-> [px |-> 0]]
                  ELSE u[1]
       IN  IF c.name \in UnderlineSetters
           THEN Rebuilt(<< [color |-> RequestedColor(c, old.color),
                            wavy |-> RequestedWavy(c, old.wavy),
                            thickness |-> RequestedThickness(c, old.thickness)] >>,
                        Tail(cs))
           ELSE Rebuilt(u, Tail(cs))

\* The positions of text_decoration_none in the chain.
Clears == {i \in 1..Len(chain) : chain[i].name = "text_decoration_none"}

\* C11: after a chain that holds a text_decoration_none, the underline is
\* what the underline calls after the last one build from nothing: absent
\* when there are none, and no sub-field set before the clear comes back.
Thm_C11_ClearResetsUnderline ==
  Clears # {} =>
    LET k == CHOOSE i \in Clears : \A j \in Clears : j <= i
    IN  style.text.underline =
          Rebuilt(<< >>, SubSeq(chain, k + 1, Len(chain)))

\* C11 witness: wavy, color, none, text_decoration_2 on a record that had a
\* wavy colored underline of thickness 4 to begin with.
Wit_C11_WavyColorNoneTwo ==
  /\ Len(chain) = 4
  /\ chain[1].name = "text_decoration_wavy"
  /\ chain[2].name = "text_decoration_color"
  /\ chain[3].name = "text_decoration_none"
  /\ chain[4].name = "text_decoration_2"
  /\ style.border_color # None
  /\ style.text.underline =
       Some([color |-> << >>, wavy |-> FALSE, thickness |-> [px |-> 2]])

\* C12: a field that was set before a builder call is set after it; the one
\* exception is the underline descriptor under text_decoration_none.
Thm_C12_SetStaysSet ==
  n >= 1 =>
    \A f \in Fields :
      (/\ Get(prev, f) # None
       /\ ~(f = "text.underline" /\ last.name = "text_decoration_none"))
      => Get(style, f) # None

\* C12 witness: shadow_none on a record that held two shadow descriptors
\* leaves the list set, and empty.
Wit_C12_ShadowNoneStaysSet ==
  /\ n >= 1
  /\ last.name = "shadow_none"
  /\ prev.box_shadow # None
  /\ Len(prev.box_shadow[1]) = 2
  /\ style.box_shadow = Some(<< >>)

====
